---- MODULE Spec2Model ----
(***************************************************************************)
(* Model of pkg/raw/full.go: BackupClient.BackupRange, the fine-grained    *)
(* retry engine (fineGrainedBackup, handleFineGrained, onBackupResponse,   *)
(* findRegionLeader) and the interval ledger (RangeTree) it drives.        *)
(*                                                                         *)
(* Keys are the integers 0..KeyMax; a range is the half-open interval      *)
(* [StartKey, EndKey) and the requested range is [startKey, endKey).       *)
(***************************************************************************)
EXTENDS Integers, Sequences, FiniteSets, TLC

\* ---------------------------------------------------------------- bounds
\* The requested range is [0, KeyMax).
KeyMax == 3
\* File identifiers a node may report for a confirmed range.
MaxFile == 2
\* Responses one per-range backup call streams before the stream ends.
MaxResps == 2
\* Confirmed responses the broadcast phase folds into the ok ledger.
MaxPushOk == 1
\* Number of confirm calls of the ledger specification.
MaxConfirms == 3
\* Logical timestamps the timestamp service may hand out: 0..MaxLogical.
MaxLogical == 1
\* Confirmed ranges behind the ledger a round on its own starts from.
MaxRoundOk == 2
\* Remaining lock lifetime (ms) a lock resolver may report.
LockMs == 50000
\* Accounted sleep (ms) of one Backoffer.BackoffWithMaxSleep call.
BackoffSleep == 45000

\* ------------------------------------------------------ program constants
backupFineGrainedMaxBackoff == 80000
NumWorkers == 4
ChanCap == 4
RegionBackoffMs == 1000
MaxLeaderAttempts == 5
LeaderSleepUnit == 100
TsLogicalBits == 18

Workers == 1 .. NumWorkers
startKey == 0
endKey == KeyMax

Max(a, b) == IF a < b THEN b ELSE a
Min(a, b) == IF a < b THEN a ELSE b

\* ------------------------------------------------------------ the ledger
\* A Range {StartKey, EndKey, Files}; Files is a sequence of file ids.
Rg(s, e, fs) == [StartKey |-> s, EndKey |-> e, Files |-> fs]

\* The keys 0..KeyMax-1 a range covers.
Cells(r) == {k \in 0 .. KeyMax - 1 : r.StartKey <= k /\ k < r.EndKey}

\* The keys a ledger (a set of ranges) covers.
Covered(tree) == UNION {Cells(r) : r \in tree}

\* The ledger's entries in key order (the tree's ascending traversal).
RECURSIVE Ascend(_)
Ascend(tree) ==
    IF tree = {} THEN <<>>
    ELSE LET m == CHOOSE r \in tree : \A q \in tree : r.StartKey <= q.StartKey
         IN  <<m>> \o Ascend(tree \ {m})

\* The walk of complement: emits the gap before each confirmed range, then
\* the gap after the last one, clipped to [last, end).
RECURSIVE Walk(_, _, _)
Walk(rs, last, end) ==
    IF rs = <<>>
    THEN IF last < end THEN <<Rg(last, end, <<>>)>> ELSE <<>>
    ELSE LET r == Head(rs)
             hi == Min(r.StartKey, end)
         IN  (IF last < hi THEN <<Rg(last, hi, <<>>)>> ELSE <<>>)
                 \o Walk(Tail(rs), Max(last, r.EndKey), end)

\* complement(start, end): the ordered, disjoint sub-intervals of
\* [start, end) not yet confirmed.
getIncompleteRange(tree, start, end) ==
    IF tree = {} THEN <<Rg(start, end, <<>>)>>
    ELSE Walk(Ascend(tree), start, end)

\* A confirm that inserts the range as it comes, overlapping or not.
putOkNoDedupe(tree, s, e, fs) == tree \cup {Rg(s, e, fs)}

\* A confirm that evicts the entries the new range overlaps.
putOkEvict(tree, s, e, fs) ==
    {r \in tree : Cells(r) \cap Cells(Rg(s, e, fs)) = {}} \cup {Rg(s, e, fs)}

\* confirm(start, end, files): inserts the part of [start, end) that is not
\* covered yet, so that entries never overlap; an already covered range
\* changes nothing, and the files are entered once, with the first piece.
putOk(tree, s, e, fs) ==
    LET gaps == getIncompleteRange(tree, s, e)
    IN  tree \cup {Rg(gaps[i].StartKey, gaps[i].EndKey,
                      IF i = 1 THEN fs ELSE <<>>) : i \in DOMAIN gaps}

\* The manifest's file list, every entry's files in key order.
RECURSIVE Concat(_)
Concat(rs) == IF rs = <<>> THEN <<>> ELSE Head(rs).Files \o Concat(Tail(rs))

Flatten(tree) == Concat(Ascend(tree))

\* The audit: whether two entries of the file list carry the same identifier.
checkDupFiles(tree) ==
    LET fl == Flatten(tree)
    IN  \E i, j \in DOMAIN fl : i < j /\ fl[i] = fl[j]

\* The sub-ranges <<a, b>> of [s, e).
SubRanges(s, e) == {p \in (s .. e) \X (s .. e) : p[1] < p[2]}

\* The file a node writes for the range [s, e): named after the range.
FileOf(s, e) == s * (KeyMax + 1) + e

\* ------------------------------------------------- timestamps and requests
\* meta.EncodeTs: the physical part shifted over the logical bits.
EncodeTs(ts) == ts.Physical * (2 ^ TsLogicalBits) + ts.Logical

\* What pdClient.GetTS may return.
Timestamps == [Physical : {1}, Logical : 0 .. MaxLogical]

\* The versions of the BackupRequest BackupRange builds for the broadcast.
BroadcastRequest(ts) ==
    [StartVersion |-> ts, EndVersion |-> ts]

\* A per-range request whose end version is off by one.
FineGrainedRequestSkewed(rg, ts) ==
    [StartVersion |-> ts, EndVersion |-> ts + 1]

\* The versions of the BackupRequest handleFineGrained builds for rg.
FineGrainedRequest(rg, ts) ==
    [StartVersion |-> ts, EndVersion |-> ts]

\* ------------------------------------------------------ the error classifier
\* A BackupResponse: Error is "none" or the detail the node reported.
Resp(err, s, e, fs) == [Error |-> err, StartKey |-> s, EndKey |-> e, Files |-> fs]

RetryableRegionErrors ==
    {"EpochNotMatch", "NotLeader", "RegionNotFound",
     "StaleCommand", "ServerIsBusy", "StoreNotMatch"}
RegionErrors == RetryableRegionErrors \cup {"RegionOther"}
KvErrors == {"KvLocked", "KvOther"}
ErrorDetails == KvErrors \cup RegionErrors \cup {"ClusterIdError", "Unknown"}

\* The error details the classifier turns into an error.
FatalDetails == {"KvOther", "RegionOther", "ClusterIdError", "Unknown"}

\* What LockResolver.ResolveLocks may return: (msBeforeExpired, err1).
ResolveResults ==
    {[ms |-> 0, err |-> FALSE], [ms |-> LockMs, err |-> FALSE],
     [ms |-> 0, err |-> TRUE]}

Outcome(response, backoffMs, err) ==
    [response |-> response, backoffMs |-> backoffMs, err |-> err]

\* A classifier that takes a cluster-identity mismatch for a routing error.
onBackupResponseLenient(resp, resolved) ==
    IF resp.Error = "none" THEN Outcome(<<resp>>, 0, FALSE)
    ELSE IF resp.Error = "KvLocked"
    THEN IF resolved.err THEN Outcome(<<>>, 0, TRUE)
         ELSE Outcome(<<>>, IF resolved.ms > 0 THEN resolved.ms ELSE 0, FALSE)
    ELSE IF resp.Error \in RetryableRegionErrors \cup {"ClusterIdError"}
    THEN Outcome(<<>>, RegionBackoffMs, FALSE)
    ELSE Outcome(<<>>, 0, TRUE)

\* A classifier that retries a lock conflict without looking at what the
\* resolver returned.
onBackupResponseBlindLock(resp, resolved) ==
    IF resp.Error = "none" THEN Outcome(<<resp>>, 0, FALSE)
    ELSE IF resp.Error = "KvLocked" THEN Outcome(<<>>, 0, FALSE)
    ELSE IF resp.Error \in RetryableRegionErrors
    THEN Outcome(<<>>, RegionBackoffMs, FALSE)
    ELSE Outcome(<<>>, 0, TRUE)

\* A classifier that passes the response on along with a retryable routing
\* error.
onBackupResponseLeaky(resp, resolved) ==
    IF resp.Error = "none" THEN Outcome(<<resp>>, 0, FALSE)
    ELSE IF resp.Error = "KvLocked"
    THEN IF resolved.err THEN Outcome(<<>>, 0, TRUE)
         ELSE Outcome(<<>>, IF resolved.ms > 0 THEN resolved.ms ELSE 0, FALSE)
    ELSE IF resp.Error \in RetryableRegionErrors
    THEN Outcome(<<resp>>, RegionBackoffMs, FALSE)
    ELSE Outcome(<<>>, 0, TRUE)

\* onBackupResponse: (response, backoffMs, err); response is <<>> for nil.
onBackupResponse(resp, resolved) ==
    IF resp.Error = "none" THEN Outcome(<<resp>>, 0, FALSE)
    ELSE IF resp.Error = "KvLocked"
    THEN IF resolved.err THEN Outcome(<<>>, 0, TRUE)
         ELSE Outcome(<<>>, IF resolved.ms > 0 THEN resolved.ms ELSE 0, FALSE)
    ELSE IF resp.Error = "KvOther" THEN Outcome(<<>>, 0, TRUE)
    ELSE IF resp.Error \in RetryableRegionErrors
    THEN Outcome(<<>>, RegionBackoffMs, FALSE)
    ELSE IF resp.Error = "RegionOther" THEN Outcome(<<>>, 0, TRUE)
    ELSE IF resp.Error = "ClusterIdError" THEN Outcome(<<>>, 0, TRUE)
    ELSE Outcome(<<>>, 0, TRUE)

\* ------------------------------------------------------ the leader resolver
\* What one pdClient.GetRegion call may return.
LookupResults == {"err", "noLeader", "leader"}

\* The results of the GetRegion calls one findRegionLeader consumes: failed
\* lookups up to the first leader, MaxLeaderAttempts at most.
LookupRuns ==
    UNION {[1 .. n -> LookupResults] : n \in 1 .. MaxLeaderAttempts} \cap
    {outs \in UNION {[1 .. n -> LookupResults] : n \in 1 .. MaxLeaderAttempts} :
        /\ \A i \in 1 .. Len(outs) - 1 : outs[i] # "leader"
        /\ Len(outs) < MaxLeaderAttempts => outs[Len(outs)] = "leader"}

\* findRegionLeader over the results of its successive GetRegion calls:
\* whether a leader was found, the lookups made and the sleeps taken (ms).
RECURSIVE FindLoop(_, _, _)
FindLoop(outs, i, sleeps) ==
    IF i >= MaxLeaderAttempts
    THEN [found |-> FALSE, lookups |-> i, sleeps |-> sleeps]
    ELSE IF outs[i + 1] = "leader"
    THEN [found |-> TRUE, lookups |-> i + 1, sleeps |-> sleeps]
    ELSE FindLoop(outs, i + 1, Append(sleeps, LeaderSleepUnit * i))

\* A resolver that gives up after its first lookup.
findRegionLeaderOnce(outs) ==
    [found |-> outs[1] = "leader", lookups |-> 1, sleeps |-> <<>>]

findRegionLeader(outs) == FindLoop(outs, 0, <<>>)

\* ------------------------------------------------------------------ state
VARIABLES
    pc,          \* where BackupRange (and, inside it, fineGrainedBackup) stands
    result,      \* what BackupRange returned: "none" until it returns
    errPhase,    \* the step whose error BackupRange returned
    backupTS,    \* the encoded snapshot timestamp, 0 before GetTS
    tsQueries,   \* calls of pdClient.GetTS
    requests,    \* the versions of every BackupRequest issued so far
    rangeTree,   \* results.ok, the ledger
    fgReturned,  \* fineGrainedBackup returned nil
    incomplete,  \* this round's incomplete ranges
    retry,       \* the work queue (chan Range, 4)
    retryClosed,
    respCh,      \* the result channel (chan *BackupResponse, 4)
    respClosed,
    errCh,       \* the error channel (chan error, 4)
    maxMs,       \* max.ms, the round's backoff scalar
    wst,         \* each worker: "recv", "find", "call", "lock", "locked",
                 \* "exited"
    wrg,         \* the sub-range a worker is processing
    wn,          \* responses the worker's current call has delivered
    wmax,        \* max of handleFineGrained
    wpend,       \* the response a worker is blocked sending on respCh
    wrouted,     \* the worker's current call met a retryable routing error
    dpc,         \* the dispatcher: "send", "wait", "done"
    dIdx,        \* the next element of incomplete to dispatch
    totalSleep,  \* the Backoffer's accounted sleep (ms)
    slept,       \* the time actually slept between rounds (ms)
    manifest,    \* the file "backupmeta": "none", "partial", "written"
    manifestFiles,
    audited,     \* checkDupFiles has run
    fatalSeen,   \* a per-range call met a fatal-classified error
    routingAbort, \* a worker reported a retryable routing error as an error
    routed,      \* the sub-ranges of this round whose call met a retryable
                 \* routing error and returned no error
    confirmedCells, \* the keys of every range the coordinator has confirmed
    lateStart,   \* a lookup or backup call started after BackupRange returned
    history,     \* the confirm calls of the ledger specification
    maxMu,       \* max.mu: 0 when free, else the worker that holds it
    roundMax,    \* the largest backoff a call of this round has returned
    taken        \* the sub-ranges the workers took from the queue this round

coordVars == <<pc, result, errPhase, backupTS, tsQueries, fgReturned,
               totalSleep, slept, manifest, manifestFiles, audited>>
roundVars == <<incomplete, retry, retryClosed, respCh, respClosed, errCh,
               maxMs, dpc, dIdx>>
workerVars == <<wst, wrg, wn, wmax, wpend, wrouted>>
histVars == <<fatalSeen, routingAbort, routed, confirmedCells, lateStart>>
obsVars == <<maxMu, roundMax, taken>>
vars == <<coordVars, roundVars, workerVars, requests, rangeTree, histVars,
          history, obsVars>>

NoRange == Rg(0, 0, <<>>)
NoResp == Resp("nil", 0, 0, <<>>)

Init ==
    /\ pc = "getTS" /\ result = "none" /\ errPhase = "none"
    /\ backupTS = 0 /\ tsQueries = 0 /\ requests = {}
    /\ rangeTree = {} /\ fgReturned = FALSE
    /\ incomplete = <<>> /\ retry = <<>> /\ retryClosed = FALSE
    /\ respCh = <<>> /\ respClosed = FALSE /\ errCh = <<>> /\ maxMs = 0
    /\ wst = [w \in Workers |-> "exited"]
    /\ wrg = [w \in Workers |-> NoRange]
    /\ wn = [w \in Workers |-> 0]
    /\ wmax = [w \in Workers |-> 0]
    /\ wpend = [w \in Workers |-> NoResp]
    /\ wrouted = [w \in Workers |-> FALSE]
    /\ dpc = "done" /\ dIdx = 1
    /\ totalSleep = 0 /\ slept = 0
    /\ manifest = "none" /\ manifestFiles = <<>> /\ audited = FALSE
    /\ fatalSeen = FALSE /\ lateStart = FALSE /\ routingAbort = FALSE
    /\ routed = {} /\ confirmedCells = {}
    /\ history = <<>>
    /\ maxMu = 0 /\ roundMax = 0 /\ taken = <<>>

\* BackupRange returns err.
ReturnErr(phase) ==
    /\ pc' = "done" /\ result' = "err" /\ errPhase' = phase

\* ----------------------------------------------------------- BackupRange
\* p, l, err := bc.pdClient.GetTS(ctx)
GetTS ==
    /\ pc = "getTS"
    /\ tsQueries' = tsQueries + 1
    /\ \/ \E ts \in Timestamps :
            /\ backupTS' = EncodeTs(ts)
            /\ pc' = "getStores" /\ UNCHANGED <<result, errPhase>>
       \/ ReturnErr("ts") /\ UNCHANGED backupTS
    /\ UNCHANGED <<fgReturned, totalSleep, slept, manifest, manifestFiles,
                   audited, roundVars, workerVars, requests, rangeTree,
                   histVars, history, obsVars>>

\* allStores, err := bc.pdClient.GetAllStores(ctx)
GetAllStores ==
    /\ pc = "getStores"
    /\ \/ pc' = "push" /\ UNCHANGED <<result, errPhase>>
       \/ ReturnErr("stores")
    /\ UNCHANGED <<backupTS, tsQueries, fgReturned, totalSleep, slept,
                   manifest, manifestFiles, audited, roundVars, workerVars,
                   requests, rangeTree, histVars, history, obsVars>>

\* The ok ledgers the broadcast phase may hand back: what n confirmed
\* responses leave in an empty ledger.
RECURSIVE PushLedgers(_)
PushLedgers(n) ==
    IF n = 0 THEN {{}}
    ELSE LET prev == PushLedgers(n - 1)
         IN  prev \cup {putOk(t, p[1], p[2], <<FileOf(p[1], p[2])>>) :
                          t \in prev, p \in SubRanges(startKey, endKey)}

\* results, err := push.pushBackup(req, allStores...)
PushBackup ==
    /\ pc = "push"
    /\ requests' = requests \cup {BroadcastRequest(backupTS)}
    /\ \/ \E t \in PushLedgers(MaxPushOk) :
            /\ rangeTree' = t
            /\ pc' = "fg" /\ UNCHANGED <<result, errPhase>>
       \/ ReturnErr("push") /\ UNCHANGED rangeTree
    /\ UNCHANGED <<backupTS, tsQueries, fgReturned, totalSleep, slept,
                   manifest, manifestFiles, audited, roundVars, workerVars,
                   histVars, history, obsVars>>

\* ------------------------------------------------------- fineGrainedBackup
\* A loop exit that tolerates one incomplete range.
IncompleteDoneLoose(inc) == Len(inc) <= 1

\* if len(incomplete) == 0 { return nil }
IncompleteDone(inc) == Len(inc) = 0

\* Step1 and the start of Step2: compute the incomplete ranges; return nil
\* when there are none, else make the channels, start the workers and the
\* dispatcher.
StartRound ==
    /\ pc = "fg"
    /\ LET inc == getIncompleteRange(rangeTree, startKey, endKey)
       IN  IF IncompleteDone(inc)
           THEN /\ pc' = "meta" /\ fgReturned' = TRUE
                /\ UNCHANGED <<roundVars, workerVars, maxMu, roundMax, taken>>
           ELSE /\ pc' = "select" /\ UNCHANGED fgReturned
                /\ incomplete' = inc
                /\ retry' = <<>> /\ retryClosed' = FALSE
                /\ respCh' = <<>> /\ respClosed' = FALSE
                /\ errCh' = <<>> /\ maxMs' = 0
                /\ wst' = [w \in Workers |-> "recv"]
                /\ wrg' = [w \in Workers |-> NoRange]
                /\ wn' = [w \in Workers |-> 0]
                /\ wmax' = [w \in Workers |-> 0]
                /\ wpend' = [w \in Workers |-> NoResp]
                /\ wrouted' = [w \in Workers |-> FALSE]
                /\ dpc' = "send" /\ dIdx' = 1
                /\ maxMu' = 0 /\ roundMax' = 0 /\ taken' = <<>>
    /\ routed' = {}
    /\ UNCHANGED <<result, errPhase, backupTS, tsQueries, totalSleep, slept,
                   manifest, manifestFiles, audited, requests, rangeTree,
                   fatalSeen, routingAbort, confirmedCells, lateStart,
                   history>>

\* The dispatcher: for _, rg := range incomplete { retry <- rg }
DispatchSend ==
    /\ dpc = "send" /\ dIdx <= Len(incomplete)
    /\ Len(retry) < ChanCap
    /\ retry' = Append(retry, incomplete[dIdx])
    /\ dIdx' = dIdx + 1
    /\ UNCHANGED <<coordVars, workerVars, incomplete, retryClosed, respCh,
                   respClosed, errCh, maxMs, dpc, requests, rangeTree,
                   histVars, history, obsVars>>

\* close(retry)
DispatchClose ==
    /\ dpc = "send" /\ dIdx > Len(incomplete)
    /\ retryClosed' = TRUE /\ dpc' = "wait"
    /\ UNCHANGED <<coordVars, workerVars, incomplete, retry, respCh,
                   respClosed, errCh, maxMs, dIdx, requests, rangeTree,
                   histVars, history, obsVars>>

\* A dispatcher that waits for the workers and leaves respCh open.
DispatchWaitNoClose ==
    /\ dpc = "wait" /\ \A w \in Workers : wst[w] = "exited"
    /\ dpc' = "done"
    /\ UNCHANGED <<coordVars, workerVars, incomplete, retry, retryClosed,
                   respCh, respClosed, errCh, maxMs, dIdx, requests,
                   rangeTree, histVars, history, obsVars>>

\* wg.Wait(); close(respCh)
DispatchWait ==
    /\ dpc = "wait" /\ \A w \in Workers : wst[w] = "exited"
    /\ respClosed' = TRUE /\ dpc' = "done"
    /\ UNCHANGED <<coordVars, workerVars, incomplete, retry, retryClosed,
                   respCh, errCh, maxMs, dIdx, requests, rangeTree,
                   histVars, history, obsVars>>

\* A worker's statements after BackupRange has returned count as late.
Late(b) == b \/ pc = "done"

\* The workers waiting on the queue hold no state of their own and are
\* interchangeable: of the waiting workers the lowest-numbered one is taken
\* to be the one the runtime wakes.
FirstWaiting(w) ==
    /\ wst[w] = "recv"
    /\ \A v \in Workers : v < w => wst[v] # "recv"

\* The worker's locals when it holds no sub-range.
WorkerReset(w) ==
    /\ wrg' = [wrg EXCEPT ![w] = NoRange]
    /\ wn' = [wn EXCEPT ![w] = 0]
    /\ wmax' = [wmax EXCEPT ![w] = 0]
    /\ wrouted' = [wrouted EXCEPT ![w] = FALSE]

\* A receive that leaves the sub-range in the queue.
WorkerRecvPeek(w) ==
    /\ wst[w] = "recv" /\ \A v \in Workers : v < w => wst[v] # "recv"
    /\ retry # <<>>
    /\ wrg' = [wrg EXCEPT ![w] = Head(retry)]
    /\ wst' = [wst EXCEPT ![w] = "find"]
    /\ lateStart' = (lateStart \/ pc = "done")
    /\ taken' = Append(taken, Head(retry))
    /\ UNCHANGED <<coordVars, wn, wmax, wpend, wrouted, roundVars,
                   requests, rangeTree, fatalSeen, routingAbort, routed,
                   confirmedCells, history, maxMu, roundMax>>

\* for rg := range retry: a worker takes the next sub-range and enters
\* handleFineGrained, which starts with the leader lookup.
WorkerRecv(w) ==
    /\ FirstWaiting(w) /\ retry # <<>>
    /\ wrg' = [wrg EXCEPT ![w] = Head(retry)]
    /\ retry' = Tail(retry)
    /\ wst' = [wst EXCEPT ![w] = "find"]
    /\ lateStart' = Late(lateStart)
    /\ taken' = Append(taken, Head(retry))
    /\ UNCHANGED <<coordVars, wn, wmax, wpend, wrouted, incomplete,
                   retryClosed, respCh, respClosed, errCh, maxMs, dpc, dIdx,
                   requests, rangeTree, fatalSeen, routingAbort, routed,
                   confirmedCells, history, maxMu, roundMax>>

\* A worker that confirms the whole range into the ledger before it exits.
WorkerExitConfirming(w) ==
    /\ wst[w] = "recv" /\ \A v \in Workers : v < w => wst[v] # "recv"
    /\ retry = <<>> /\ retryClosed
    /\ wst' = [wst EXCEPT ![w] = "exited"]
    /\ rangeTree' = rangeTree \cup {[StartKey |-> startKey, EndKey |-> endKey,
                                     Files |-> <<>>]}
    /\ UNCHANGED <<coordVars, wrg, wn, wmax, wpend, wrouted, roundVars,
                   requests, histVars, history, obsVars>>

\* range retry ends: the queue is closed and drained; wg.Done().
WorkerExit(w) ==
    /\ FirstWaiting(w) /\ retry = <<>> /\ retryClosed
    /\ wst' = [wst EXCEPT ![w] = "exited"]
    /\ UNCHANGED <<coordVars, wrg, wn, wmax, wpend, wrouted, roundVars,
                   requests, rangeTree, histVars, history, obsVars>>

\* A worker that reports its error and goes back to the queue.
WorkerFailStay(w, err) ==
    /\ Len(errCh) < ChanCap
    /\ errCh' = Append(errCh, err)
    /\ wst' = [wst EXCEPT ![w] = "recv"]
    /\ wrg' = [wrg EXCEPT ![w] = NoRange]
    /\ wn' = [wn EXCEPT ![w] = 0]
    /\ wmax' = [wmax EXCEPT ![w] = 0]
    /\ wrouted' = [wrouted EXCEPT ![w] = FALSE]

\* errCh <- err; return (wg.Done()). The error is known by where it comes
\* from: "leader" (findRegionLeader), "resolve" (ResolveLocks), "response"
\* (the other errors of onBackupResponse), "send" (SendBackup itself).
WorkerFail(w, err) ==
    /\ Len(errCh) < ChanCap
    /\ errCh' = Append(errCh, err)
    /\ wst' = [wst EXCEPT ![w] = "exited"]
    /\ WorkerReset(w)

\* findRegionLeader(rg.StartKey), then the request of handleFineGrained is
\* built and SendBackup is called.
WorkerFind(w) ==
    /\ wst[w] = "find"
    /\ \E outs \in LookupRuns :
         IF findRegionLeader(outs).found
         THEN /\ wst' = [wst EXCEPT ![w] = "call"]
              /\ requests' = requests \cup {FineGrainedRequest(wrg[w], backupTS)}
              /\ lateStart' = Late(lateStart)
              /\ UNCHANGED <<wrg, wn, wmax, wrouted, errCh, fatalSeen>>
         ELSE /\ WorkerFail(w, "leader")
              /\ fatalSeen' = TRUE
              /\ UNCHANGED <<requests, lateStart>>
    /\ UNCHANGED <<coordVars, wpend, incomplete, retry, retryClosed, respCh,
                   respClosed, maxMs, dpc, dIdx, rangeTree, routingAbort,
                   routed, confirmedCells, history, obsVars>>

\* What a node may answer to the request for rg: a confirmed sub-range with
\* its file, or an error detail.
NodeResponses(rg) ==
    {Resp("none", p[1], p[2], <<FileOf(p[1], p[2])>>) :
        p \in SubRanges(rg.StartKey, rg.EndKey)}
    \cup {Resp(e, 0, 0, <<>>) : e \in ErrorDetails}

\* The callback of handleFineGrained on one response of the stream: the
\* response is classified; an error ends the call and the worker; a
\* response is sent on respCh, and the worker blocks there while the
\* channel is full.
WorkerResponse(w) ==
    /\ wst[w] = "call"
    /\ IF wpend[w] # NoResp
       THEN /\ Len(respCh) < ChanCap
            /\ respCh' = Append(respCh, wpend[w])
            /\ wpend' = [wpend EXCEPT ![w] = NoResp]
            /\ UNCHANGED <<wst, wrg, wn, wmax, wrouted, errCh, fatalSeen,
                           routingAbort>>
       ELSE /\ wn[w] < MaxResps
            /\ \E resp \in NodeResponses(wrg[w]) :
               \E resolved \in IF resp.Error = "KvLocked" THEN ResolveResults
                               ELSE {[ms |-> 0, err |-> FALSE]} :
                 LET out == onBackupResponse(resp, resolved)
                 IN  IF out.err
                     THEN /\ WorkerFail(w, IF resp.Error = "KvLocked"
                                           THEN "resolve" ELSE "response")
                          /\ fatalSeen' =
                               (fatalSeen \/ resp.Error \in FatalDetails)
                          /\ routingAbort' =
                               (routingAbort
                                  \/ resp.Error \in RetryableRegionErrors)
                          /\ UNCHANGED <<respCh, wpend>>
                     ELSE /\ wmax' = [wmax EXCEPT
                                        ![w] = Max(wmax[w], out.backoffMs)]
                          /\ wn' = [wn EXCEPT ![w] = wn[w] + 1]
                          /\ wrouted' = [wrouted EXCEPT ![w] =
                                 wrouted[w]
                                   \/ resp.Error \in RetryableRegionErrors]
                          /\ IF out.response = <<>>
                             THEN UNCHANGED <<respCh, wpend>>
                             ELSE IF Len(respCh) < ChanCap
                             THEN /\ respCh' = Append(respCh, out.response[1])
                                  /\ UNCHANGED wpend
                             ELSE /\ wpend' = [wpend EXCEPT
                                                 ![w] = out.response[1]]
                                  /\ UNCHANGED respCh
                          /\ UNCHANGED <<wst, wrg, errCh, fatalSeen,
                                         routingAbort>>
    /\ UNCHANGED <<coordVars, incomplete, retry, retryClosed, respClosed,
                   maxMs, dpc, dIdx, requests, rangeTree, routed,
                   confirmedCells, lateStart, history, obsVars>>

\* A worker that drops its backoff instead of recording it.
RecordBackoffDropped(ms, backoffMs) == ms

\* A worker that overwrites the scalar with its own backoff.
RecordBackoffLast(ms, backoffMs) == backoffMs

\* if backoffMs != 0 { lock; if max.ms < backoffMs { max.ms = backoffMs } }
RecordBackoff(ms, backoffMs) ==
    IF backoffMs # 0 /\ ms < backoffMs THEN backoffMs ELSE ms

\* The stream ends and SendBackup returns nil: handleFineGrained returns
\* max. With max = 0 the worker goes back to the queue, else it goes for
\* the mutex of the round's backoff scalar.
WorkerCallDone(w) ==
    /\ wst[w] = "call" /\ wpend[w] = NoResp
    /\ roundMax' = Max(roundMax, wmax[w])
    /\ IF wmax[w] # 0
       THEN /\ wst' = [wst EXCEPT ![w] = "lock"]
            /\ UNCHANGED <<wrg, wn, wmax, wrouted, routed>>
       ELSE /\ wst' = [wst EXCEPT ![w] = "recv"]
            /\ WorkerReset(w)
            /\ routed' = IF wrouted[w]
                         THEN routed \cup {<<wrg[w].StartKey, wrg[w].EndKey>>}
                         ELSE routed
    /\ UNCHANGED <<coordVars, wpend, roundVars, requests, rangeTree,
                   fatalSeen, routingAbort, confirmedCells, lateStart,
                   history, maxMu, taken>>

\* max.mu.Lock()
WorkerLock(w) ==
    /\ wst[w] = "lock" /\ maxMu = 0
    /\ maxMu' = w
    /\ wst' = [wst EXCEPT ![w] = "locked"]
    /\ UNCHANGED <<coordVars, wrg, wn, wmax, wpend, wrouted, roundVars,
                   requests, rangeTree, histVars, history, roundMax,
                   taken>>

\* if max.ms < backoffMs { max.ms = backoffMs }; max.mu.Unlock(); the
\* worker goes back to the queue.
WorkerRecord(w) ==
    /\ wst[w] = "locked" /\ maxMu = w
    /\ maxMs' = RecordBackoff(maxMs, wmax[w])
    /\ maxMu' = 0
    /\ routed' = IF wrouted[w]
                 THEN routed \cup {<<wrg[w].StartKey, wrg[w].EndKey>>}
                 ELSE routed
    /\ wst' = [wst EXCEPT ![w] = "recv"]
    /\ WorkerReset(w)
    /\ UNCHANGED <<coordVars, wpend, incomplete, retry, retryClosed, respCh,
                   respClosed, errCh, dpc, dIdx, requests, rangeTree,
                   fatalSeen, routingAbort, confirmedCells, lateStart,
                   history, roundMax, taken>>

\* SendBackup itself fails (the transport): handleFineGrained returns the
\* error.
WorkerCallFail(w) ==
    /\ wst[w] = "call" /\ wpend[w] = NoResp
    /\ WorkerFail(w, "send")
    /\ UNCHANGED <<coordVars, wpend, incomplete, retry, retryClosed, respCh,
                   respClosed, maxMs, dpc, dIdx, requests, rangeTree,
                   histVars, history, obsVars>>

\* The select loop, case err := <-errCh: return err.
SelectErr ==
    /\ pc = "select" /\ errCh # <<>>
    /\ errCh' = Tail(errCh)
    /\ ReturnErr("retry")
    /\ UNCHANGED <<backupTS, tsQueries, fgReturned, totalSleep, slept,
                   manifest, manifestFiles, audited, workerVars, incomplete,
                   retry, retryClosed, respCh, respClosed, maxMs, dpc, dIdx,
                   requests, rangeTree, histVars, history, obsVars>>

\* The select loop, case resp, ok := <-respCh with ok: log.Fatal on a
\* response that carries an error, else rangeTree.putOk.
SelectResp ==
    /\ pc = "select" /\ respCh # <<>>
    /\ respCh' = Tail(respCh)
    /\ IF Head(respCh).Error # "none"
       THEN pc' = "crashed" /\ UNCHANGED <<rangeTree, confirmedCells>>
       ELSE /\ rangeTree' = putOk(rangeTree, Head(respCh).StartKey,
                                  Head(respCh).EndKey, Head(respCh).Files)
            /\ confirmedCells' = confirmedCells \cup Cells(Head(respCh))
            /\ UNCHANGED pc
    /\ UNCHANGED <<result, errPhase, backupTS, tsQueries, fgReturned,
                   totalSleep, slept, manifest, manifestFiles, audited,
                   workerVars, incomplete, retry, retryClosed, respClosed,
                   errCh, maxMs, dpc, dIdx, requests, fatalSeen,
                   routingAbort, routed, lateStart, history, obsVars>>

\* A coordinator that leaves the loop as soon as the result channel is
\* empty, closed or not.
SelectClosedEarly ==
    /\ pc = "select" /\ respCh = <<>>
    /\ pc' = "backoff"
    /\ UNCHANGED <<result, errPhase, backupTS, tsQueries, fgReturned,
                   totalSleep, slept, manifest, manifestFiles, audited,
                   roundVars, workerVars, requests, rangeTree, histVars,
                   history, obsVars>>

\* The select loop, case resp, ok := <-respCh with !ok: break selectLoop.
SelectClosed ==
    /\ pc = "select" /\ respCh = <<>> /\ respClosed
    /\ pc' = "backoff"
    /\ UNCHANGED <<result, errPhase, backupTS, tsQueries, fgReturned,
                   totalSleep, slept, manifest, manifestFiles, audited,
                   roundVars, workerVars, requests, rangeTree, histVars,
                   history, obsVars>>

\* A Backoffer whose budget is never checked.
BackoffWithMaxSleepUnbounded(total, maxSleepMs) ==
    [totalSleep |-> total + BackoffSleep,
     slept |-> Min(BackoffSleep, maxSleepMs), err |-> FALSE]

\* bo.BackoffWithMaxSleep(boTxnLockFast, ms, err) on the Backoffer made by
\* tikv.NewBackoffer(bc.ctx, backupFineGrainedMaxBackoff): it sleeps the
\* computed time, at most maxSleepMs, adds the computed time to its total,
\* and then fails when the total has reached the budget.
BackoffWithMaxSleep(total, maxSleepMs) ==
    [totalSleep |-> total + BackoffSleep,
     slept |-> Min(BackoffSleep, maxSleepMs),
     err |-> total + BackoffSleep >= backupFineGrainedMaxBackoff]

\* Step3: read max.ms under its mutex; back off when it is not 0, then
\* repeat.
BackoffStep ==
    /\ pc = "backoff" /\ maxMu = 0
    /\ IF maxMs # 0
       THEN LET b == BackoffWithMaxSleep(totalSleep, maxMs)
            IN  /\ totalSleep' = b.totalSleep
                /\ slept' = slept + b.slept
                /\ IF b.err
                   THEN ReturnErr("timeout")
                   ELSE pc' = "fg" /\ UNCHANGED <<result, errPhase>>
       ELSE /\ pc' = "fg"
            /\ UNCHANGED <<result, errPhase, totalSleep, slept>>
    /\ UNCHANGED <<backupTS, tsQueries, fgReturned, manifest, manifestFiles,
                   audited, roundVars, workerVars, requests, rangeTree,
                   histVars, history, obsVars>>

\* ------------------------------------------------ the end of BackupRange
\* The audit before the manifest.
NextStepAuditFirst(step) ==
    CASE step = "meta" -> "audit"
      [] step = "audit" -> "write"
      [] step = "write" -> "done"

\* The statements of BackupRange after fineGrainedBackup, in order: build
\* and marshal backupMeta, ioutil.WriteFile, checkDupFiles, return nil.
NextStep(step) ==
    CASE step = "meta" -> "write"
      [] step = "write" -> "audit"
      [] step = "audit" -> "done"

Advance ==
    /\ pc' = NextStep(pc)
    /\ IF NextStep(pc) = "done"
       THEN result' = "ok" /\ UNCHANGED errPhase
       ELSE UNCHANGED <<result, errPhase>>

\* backupMeta.Files is flattened from the ledger; proto.Marshal(backupMeta).
BuildMeta ==
    /\ pc = "meta"
    /\ \/ manifestFiles' = Flatten(rangeTree) /\ Advance
       \/ ReturnErr("marshal") /\ UNCHANGED manifestFiles
    /\ UNCHANGED <<backupTS, tsQueries, fgReturned, totalSleep, slept,
                   manifest, audited, roundVars, workerVars, requests,
                   rangeTree, histVars, history, obsVars>>

\* ioutil.WriteFile("backupmeta", ...): a failed write may leave the file
\* absent or truncated.
WriteManifest ==
    /\ pc = "write"
    /\ \/ manifest' = "written" /\ Advance
       \/ manifest' \in {manifest, "partial"} /\ ReturnErr("write")
    /\ UNCHANGED <<backupTS, tsQueries, fgReturned, totalSleep, slept,
                   manifestFiles, audited, roundVars, workerVars, requests,
                   rangeTree, histVars, history, obsVars>>

\* results.ok.checkDupFiles()
Audit ==
    /\ pc = "audit"
    /\ audited' = TRUE
    /\ Advance
    /\ UNCHANGED <<backupTS, tsQueries, fgReturned, totalSleep, slept,
                   manifest, manifestFiles, roundVars, workerVars, requests,
                   rangeTree, histVars, history, obsVars>>

\* ------------------------------------------------------ the specification
Coordinator ==
    \/ GetTS \/ GetAllStores \/ PushBackup \/ StartRound
    \/ SelectErr \/ SelectResp \/ SelectClosed \/ BackoffStep
    \/ BuildMeta \/ WriteManifest \/ Audit

Dispatcher == DispatchSend \/ DispatchClose \/ DispatchWait

Worker(w) ==
    \/ WorkerRecv(w) \/ WorkerExit(w) \/ WorkerFind(w) \/ WorkerResponse(w)
    \/ WorkerCallDone(w) \/ WorkerLock(w) \/ WorkerRecord(w)
    \/ WorkerCallFail(w)

Next == Coordinator \/ Dispatcher \/ \E w \in Workers : Worker(w)

Spec == Init /\ [][Next]_vars

\* Every goroutine that can take a step eventually takes one, and every
\* remote call returns; what the nodes answer is left open.
FairSpec ==
    /\ Spec
    /\ WF_vars(Coordinator)
    /\ WF_vars(Dispatcher)
    /\ \A w \in Workers : WF_vars(Worker(w))

\* ------------------------------------------- one round on its own
\* fineGrainedBackup at the top of its loop, the ledger being any that
\* MaxRoundOk confirmed ranges at most can leave.
RoundInit ==
    /\ pc = "fg" /\ result = "none" /\ errPhase = "none"
    /\ \E ts \in Timestamps : backupTS = EncodeTs(ts)
    /\ tsQueries = 1 /\ requests = {BroadcastRequest(backupTS)}
    /\ rangeTree \in PushLedgers(MaxRoundOk) /\ fgReturned = FALSE
    /\ incomplete = <<>> /\ retry = <<>> /\ retryClosed = FALSE
    /\ respCh = <<>> /\ respClosed = FALSE /\ errCh = <<>> /\ maxMs = 0
    /\ wst = [w \in Workers |-> "exited"]
    /\ wrg = [w \in Workers |-> NoRange]
    /\ wn = [w \in Workers |-> 0]
    /\ wmax = [w \in Workers |-> 0]
    /\ wpend = [w \in Workers |-> NoResp]
    /\ wrouted = [w \in Workers |-> FALSE]
    /\ dpc = "done" /\ dIdx = 1
    /\ totalSleep = 0 /\ slept = 0
    /\ manifest = "none" /\ manifestFiles = <<>> /\ audited = FALSE
    /\ fatalSeen = FALSE /\ lateStart = FALSE /\ routingAbort = FALSE
    /\ routed = {} /\ confirmedCells = {}
    /\ history = <<>>
    /\ maxMu = 0 /\ roundMax = 0 /\ taken = <<>>

\* Step1 and Step2 of the loop: the round up to the point where the
\* coordinator leaves the collection loop, and what the workers and the
\* dispatcher do after that.
RoundNext ==
    \/ StartRound \/ SelectErr \/ SelectResp \/ SelectClosed
    \/ Dispatcher \/ \E w \in Workers : Worker(w)

\* Some goroutine that can take a step eventually takes one, and every
\* remote call returns.
RoundSpec == RoundInit /\ [][RoundNext]_vars /\ WF_vars(RoundNext)

\* ------------------------------------------- the ledger on its own
\* confirm(start, end, files) for any sub-range of [startKey, endKey) and
\* any file, MaxConfirms times at most; history keeps the calls in order.
Confirm ==
    /\ Len(history) < MaxConfirms
    /\ \E p \in SubRanges(startKey, endKey), f \in 1 .. MaxFile :
         /\ history' = Append(history, Rg(p[1], p[2], <<f>>))
         /\ rangeTree' = putOk(rangeTree, p[1], p[2], <<f>>)
    /\ UNCHANGED <<coordVars, roundVars, workerVars, requests, histVars,
                   obsVars>>

LedgerSpec == Init /\ [][Confirm]_vars

\* ---------------------------------------------------------------- claims
IncCells(inc) == UNION {Cells(inc[i]) : i \in DOMAIN inc}
Complement == getIncompleteRange(rangeTree, startKey, endKey)
AllCells == Cells(Rg(startKey, endKey, <<>>))

\* C1: BackupRange is all-or-nothing. The manifest file is touched only
\* after fineGrainedBackup has returned nil with the complement of
\* [startKey, endKey) empty; when BackupRange returns an error no manifest
\* has been written, and when the error comes from the timestamp, the store
\* list, the broadcast or a retry round the file has not been touched.
C1_AllOrNothing ==
    /\ manifest # "none" => fgReturned /\ Complement = <<>>
    /\ result = "err" => manifest # "written"
    /\ result = "err" /\ errPhase \in {"ts", "stores", "push", "retry", "timeout"}
          => manifest = "none"

\* C1 witness: a backup that needed a retry round with a backoff and then
\* wrote its manifest.
C1_Witness == result = "ok" /\ manifest = "written" /\ totalSleep > 0

\* C2: once a per-range call has met a fatal-classified error, BackupRange
\* does not succeed and writes no manifest.
C2_FatalAborts == fatalSeen => result # "ok" /\ manifest = "none"

\* C3: the retry loop terminates: BackupRange eventually returns. The runs
\* in which a worker reports an error are set aside, so that a violation is
\* a run whose rounds repeat with no error at all.
C3_Terminates == <>(pc = "done" \/ errCh # <<>>)

\* C4: the timestamp service is queried once, and every request issued
\* carries the timestamp it returned as start and as end version.
C4_SingleTimestamp ==
    /\ tsQueries <= 1
    /\ pc # "getTS" => tsQueries = 1
    /\ \A r \in requests :
          r.StartVersion = backupTS /\ r.EndVersion = backupTS

\* C4 witness: a per-range request of a second round is out, next to the
\* broadcast request of the same invocation.
C4_Witness ==
    /\ totalSleep > 0 /\ requests # {}
    /\ \E w \in Workers : wst[w] = "call"

\* The keys the confirm calls made so far cover.
HistoryCells == UNION {Cells(history[i]) : i \in DOMAIN history}

\* C5: after any sequence of confirm calls over sub-ranges of
\* [startKey, endKey), in any order and with any overlaps, the complement
\* over [startKey, endKey) holds no key of a confirmed range, and it is the
\* empty list once the confirmed ranges cover [startKey, endKey).
C5_ComplementSound ==
    /\ IncCells(Complement) \cap HistoryCells = {}
    /\ HistoryCells = AllCells => Complement = <<>>

\* C5 witness: three confirm calls that came out of key order, two of them
\* overlapping, and together cover the whole range.
C5_Witness ==
    /\ Len(history) = MaxConfirms /\ HistoryCells = AllCells
    /\ \E i, j \in DOMAIN history :
          /\ i < j /\ history[j].StartKey < history[i].StartKey
          /\ Cells(history[i]) \cap Cells(history[j]) # {}

\* The ledger a sequence of confirm calls leaves, starting from the empty one.
RECURSIVE Replay(_)
Replay(h) ==
    IF h = <<>> THEN {}
    ELSE LET r == h[Len(h)]
         IN  putOk(Replay(SubSeq(h, 1, Len(h) - 1)),
                   r.StartKey, r.EndKey, r.Files)

\* The arrival orders of the confirm calls in h.
Orders(h) ==
    {[i \in DOMAIN h |-> h[q[i]]] :
        q \in {f \in [DOMAIN h -> DOMAIN h] :
                 \A i, j \in DOMAIN h : i # j => f[i] # f[j]}}

\* Confirm calls that are pairwise disjoint or the same call repeated.
Compatible(h) ==
    \A i, j \in DOMAIN h :
        Cells(h[i]) \cap Cells(h[j]) = {} \/ h[i] = h[j]

RoutedCells == UNION {Cells(Rg(rg[1], rg[2], <<>>)) : rg \in routed}

\* C7 (as claimed): when a round is over, a sub-range whose call met a
\* retryable routing error is not confirmed: all of it is in the complement
\* the next round dispatches.
C7_RoutedNotConfirmed ==
    pc = "backoff" => RoutedCells \subseteq IncCells(Complement)

\* What the steps of the coordinator do with the routed sub-ranges: the
\* backoff after their round is performed, and the next round dispatches
\* what the ledger does not cover of them.
C7_RoutingStep ==
    /\ (pc = "backoff" /\ pc' # "backoff" /\ routed # {})
          => totalSleep' > totalSleep
    /\ (pc = "fg" /\ pc' = "select")
          => RoutedCells \ Covered(rangeTree) \subseteq IncCells(incomplete')

\* C7 (amended): a retryable routing error is never reported as an error;
\* a call that met one and ended without error makes its round record a
\* backoff of RegionBackoffMs at least, which is then performed; what no
\* response has confirmed of its sub-range is in the incomplete set the
\* next round dispatches; and a confirmed key is in no later complement.
C7_RoutingRetried ==
    /\ [](/\ ~routingAbort
          /\ routed # {} => maxMs >= RegionBackoffMs
          /\ confirmedCells \cap IncCells(Complement) = {})
    /\ [][C7_RoutingStep]_vars

\* C7 witness: one round backed off for a routing error, the round after it
\* completed the ledger and the manifest is written.
C7_Witness ==
    /\ result = "ok" /\ manifest = "written"
    /\ slept = RegionBackoffMs /\ confirmedCells # {}

\* C8: no leader lookup and no per-range backup call starts after
\* BackupRange has returned.
C8_NoLateStart == ~lateStart

C10_AuditBeforeManifest == manifest = "written" => audited

\* C10 (amended): the ledger covers the range, then the manifest is
\* written, then the audit runs; the audit never runs on a failing
\* invocation and never before the manifest is written.
C10_ManifestThenAudit ==
    /\ audited => manifest = "written"
    /\ manifest # "none" => fgReturned /\ Complement = <<>>
    /\ result = "err" => ~audited
    /\ result = "ok" => audited

\* C10 witness: the manifest is on disk and the audit has not run yet.
C10_Witness == manifest = "written" /\ ~audited /\ pc = "audit"

\* Every response a node may send for a sub-range of [startKey, endKey).
AllResponses ==
    UNION {NodeResponses(Rg(p[1], p[2], <<>>)) :
             p \in SubRanges(startKey, endKey)}

\* C11: onBackupResponse maps the reported condition to its outcome: no
\* error passes the response through with backoff 0; a retryable routing
\* error gives no response, RegionBackoffMs and no error; any other routing
\* error, a storage error that is not a lock conflict, a cluster-identity
\* mismatch and an unrecognized error give an error with no response. A
\* response never comes with an error, and only for a response without
\* error; so a running call that met a routing error holds a backoff of
\* RegionBackoffMs at least.
C11_Classifier ==
    /\ \A resp \in AllResponses, resolved \in ResolveResults :
         LET out == onBackupResponse(resp, resolved)
         IN  /\ resp.Error = "none" => out = Outcome(<<resp>>, 0, FALSE)
             /\ resp.Error \in RetryableRegionErrors
                   => out = Outcome(<<>>, RegionBackoffMs, FALSE)
             /\ resp.Error \in {"RegionOther", "KvOther", "ClusterIdError",
                                "Unknown"}
                   => out = Outcome(<<>>, 0, TRUE)
             /\ ~(out.response # <<>> /\ out.err)
             /\ out.response # <<>>
                   => resp.Error = "none" /\ out.response = <<resp>>
    /\ \A w \in Workers :
         wst[w] = "call" /\ wrouted[w] => wmax[w] >= RegionBackoffMs

\* C11 witness: a call has passed a confirmed response on and has then met
\* a retryable routing error, which left it running with the fixed backoff.
C11_Witness ==
    \E w \in Workers :
        /\ wst[w] = "call" /\ wrouted[w] /\ wmax[w] = RegionBackoffMs
        /\ respCh # <<>>

InProcess == {w \in Workers : wst[w] \in {"find", "call", "lock", "locked"}}

\* What a step does with the round's incomplete set: a round starts with
\* the complement of [startKey, endKey), and nothing changes it afterwards.
C13_RoundStep ==
    /\ (pc = "fg" /\ pc' = "select")
          => incomplete' = getIncompleteRange(rangeTree, startKey, endKey)
    /\ pc # "fg" => incomplete' = incomplete

\* C13: a round dispatches the complement computed at its start and
\* nothing else; the sub-ranges the workers have taken are the first ones
\* of that list, each taken once, and the queue holds the ones dispatched
\* after them; a worker holds one sub-range at a time and no two workers
\* hold the same one; when the round's workers have all exited and none
\* reported an error, every sub-range of the list has been taken once.
C13_DispatchOnce ==
    /\ [](/\ Len(taken) <= Len(incomplete)
          /\ taken = SubSeq(incomplete, 1, Len(taken))
          /\ retry = SubSeq(incomplete, Len(taken) + 1, dIdx - 1)
          /\ \A i, j \in DOMAIN incomplete : i # j => incomplete[i] # incomplete[j]
          /\ \A w \in Workers :
               IF w \in InProcess
               THEN \E i \in DOMAIN taken : taken[i] = wrg[w]
               ELSE wrg[w] = NoRange
          /\ \A w, v \in InProcess : w # v => wrg[w] # wrg[v]
          /\ (dpc = "done" /\ errCh = <<>> /\ result # "err")
                => taken = incomplete)
    /\ [][C13_RoundStep]_vars

\* C13 witness: two workers process the two sub-ranges of a round at the
\* same time.
C13_Witness ==
    /\ Len(incomplete) = 2 /\ taken = incomplete
    /\ Cardinality(InProcess) = 2

\* What a step does with the workers of a round: a round starts only when
\* every worker of the round before it has exited, and it starts NumWorkers
\* workers, all waiting on the queue.
C14_RoundStep ==
    (pc = "fg" /\ pc' = "select")
        => /\ \A w \in Workers : wst[w] = "exited"
           /\ dpc = "done"
           /\ \A w \in Workers : wst'[w] = "recv"

\* C14: at most NumWorkers per-range calls are in flight; the result
\* channel is closed, and the coordinator is past the collection loop of a
\* round, only when every worker of the round has exited; and a round
\* starts only when every worker of the round before it has exited.
C14_PoolBound ==
    /\ [](/\ Cardinality({w \in Workers : wst[w] = "call"}) <= NumWorkers
          /\ respClosed => \A w \in Workers : wst[w] = "exited"
          /\ pc \in {"backoff", "fg"}
                => dpc = "done" /\ \A w \in Workers : wst[w] = "exited")
    /\ [][C14_RoundStep]_vars

\* C14 witness: a round with two calls in flight at once, begun after a
\* backoff, that is after the round before it.
C14_Witness ==
    /\ totalSleep > 0 /\ pc = "select"
    /\ Cardinality({w \in Workers : wst[w] = "call"}) = 2

\* What a step does with the backoff scalar: a round starts with 0; a
\* worker writes it only while it holds the mutex; the coordinator reads it
\* with the mutex free, backs off exactly when it is not 0 and else starts
\* the next round at once.
C15_ScalarStep ==
    /\ (pc = "fg" /\ pc' = "select") => maxMs' = 0
    /\ maxMs' # maxMs
          => \/ pc = "fg" /\ pc' = "select"
             \/ \E w \in Workers : maxMu = w /\ wst[w] = "locked"
    /\ (pc = "backoff" /\ pc' # "backoff")
          => /\ maxMu = 0
             /\ (maxMs # 0) <=> (totalSleep' > totalSleep)
             /\ maxMs = 0 => pc' = "fg" /\ slept' = slept

\* C15: the mutex is held by the one worker that is updating the scalar;
\* when the coordinator is past the collection loop the mutex is free and
\* the scalar is the largest backoff a call of the round has returned; and
\* the steps treat the scalar as C15_ScalarStep says.
C15_BackoffScalar ==
    /\ [](/\ maxMu # 0 => wst[maxMu] = "locked"
          /\ \A w \in Workers : wst[w] = "locked" => maxMu = w
          /\ maxMs <= roundMax
          /\ pc = "backoff" => maxMs = roundMax /\ maxMu = 0)
    /\ [][C15_ScalarStep]_vars

\* C15 witness: the coordinator is about to read a scalar that two calls of
\* the round have contributed to, the smaller contribution last.
C15_Witness ==
    /\ pc = "backoff" /\ maxMs = LockMs /\ Len(taken) = 2
    /\ <<incomplete[2].StartKey, incomplete[2].EndKey>> \in routed

\* C16 (as claimed): the coordinator takes no response off the result
\* channel, and so confirms nothing, while a worker still holds a
\* sub-range.
C16_ConfirmAfterCollect ==
    [][(pc = "select" /\ Len(respCh') < Len(respCh)) => InProcess = {}]_vars

\* What a step does with the ledger: only a step of the coordinator changes
\* it, in the broadcast phase or by confirming the response it takes off
\* the result channel; no step of a worker or of the dispatcher does.
C16_LedgerStep ==
    rangeTree' # rangeTree
        => /\ workerVars' = workerVars
           /\ UNCHANGED <<dpc, dIdx, retry>>
           /\ \/ pc = "push"
              \/ /\ pc = "select" /\ respCh # <<>>
                 /\ respCh' = Tail(respCh)
                 /\ rangeTree' = putOk(rangeTree, Head(respCh).StartKey,
                                       Head(respCh).EndKey,
                                       Head(respCh).Files)

\* C16 (amended): the ledger is changed by the coordinator alone, which
\* confirms each response as it receives it, also while workers still
\* process sub-ranges; workers and dispatcher never change it.
C16_SingleWriter == [][C16_LedgerStep]_vars

\* C16 witness: a worker is still processing a sub-range of which the
\* coordinator has already confirmed a part.
C16_Witness ==
    \E w \in InProcess : Cells(wrg[w]) \cap Covered(rangeTree) # {}

\* The results of MaxLeaderAttempts successive GetRegion calls, whether
\* findRegionLeader gets to make them or not.
LookupPlans == [1 .. MaxLeaderAttempts -> LookupResults]

\* The first lookup of a plan that gives a leader, 0 if none does.
FirstLeader(outs) ==
    IF \E i \in DOMAIN outs : outs[i] = "leader"
    THEN CHOOSE i \in DOMAIN outs :
            outs[i] = "leader" /\ \A j \in 1 .. i - 1 : outs[j] # "leader"
    ELSE 0

\* findRegionLeader on every plan: it stops at the first lookup that gives
\* a leader, makes MaxLeaderAttempts lookups when none does, and after its
\* failed attempt i (from 0) it sleeps LeaderSleepUnit * i ms.
LeaderLookupBounded ==
    \A outs \in LookupPlans :
        LET r == findRegionLeader(outs)
            k == FirstLeader(outs)
            failed == IF k = 0 THEN MaxLeaderAttempts ELSE k - 1
        IN  /\ r.lookups <= MaxLeaderAttempts
            /\ r.found <=> k # 0
            /\ r.lookups = IF k = 0 THEN MaxLeaderAttempts ELSE k
            /\ r.sleeps = [i \in 1 .. failed |-> LeaderSleepUnit * (i - 1)]

\* A worker's findRegionLeader call consumes every lookup result of its
\* run: the runs end where findRegionLeader stops.
LookupRunsConsumed ==
    \A outs \in LookupRuns : Len(outs) = findRegionLeader(outs).lookups

\* What a step does with a worker that is looking for the leader: it goes
\* on to the backup call, or it exits with the not-found error on the error
\* channel, and then no request is issued.
C17_FindStep ==
    \A w \in Workers :
        wst[w] = "find" /\ wst'[w] # "find"
            => \/ wst'[w] = "call" /\ errCh' = errCh
               \/ /\ wst'[w] = "exited"
                  /\ errCh' = Append(errCh, "leader")
                  /\ requests' = requests /\ wrg'[w] = NoRange

\* C17: findRegionLeader makes at most MaxLeaderAttempts lookups, returns
\* at the first one that gives a leader, sleeps LeaderSleepUnit * i after
\* failed attempt i, and returns not-found after MaxLeaderAttempts failed
\* attempts; the worker then reports the error and issues no backup call.
C17_LeaderLookup ==
    /\ [](/\ LeaderLookupBounded
          /\ LookupRunsConsumed
          /\ (\E i \in DOMAIN errCh : errCh[i] = "leader") => fatalSeen)
    /\ [][C17_FindStep]_vars

\* C17 witness: a worker found no leader in its lookups, has put the
\* not-found error on the error channel and has exited, with the
\* coordinator still in its collection loop.
C17_Witness ==
    /\ pc = "select" /\ errCh = <<"leader">>
    /\ \E w \in Workers : wst[w] = "exited" /\ wrg[w] = NoRange

\* C18: every response on the result channel, or waiting to be sent on it,
\* has no error set; the coordinator never takes the branch that ends the
\* process; and every key the coordinator has confirmed came with such a
\* response.
C18_NoErrorForwarded ==
    /\ \A i \in DOMAIN respCh : respCh[i].Error = "none"
    /\ \A w \in Workers : wpend[w] = NoResp \/ wpend[w].Error = "none"
    /\ pc # "crashed"
    /\ \A i \in DOMAIN respCh : respCh[i] \in AllResponses

\* C18 witness: two responses wait on the result channel while the call
\* that sent them has met a retryable routing error.
C18_Witness ==
    /\ pc = "select" /\ Len(respCh) = 2
    /\ \E w \in Workers : wst[w] = "lock" /\ wrouted[w]

C20_ErrStep ==
    Len(errCh') > Len(errCh)
        => /\ Len(errCh') = Len(errCh) + 1
           /\ \E w \in Workers :
                /\ wst[w] # "exited" /\ wst'[w] = "exited"
                /\ \A v \in Workers \ {w} : wst'[v] = wst[v]

\* C20: the error channel never holds more errors than workers have
\* exited, so never more than its capacity, which is the number of
\* workers; while a worker is running the channel has room, so the send of
\* an error never blocks; and a worker sends one error and exits.
C20_ErrChRoom ==
    /\ [](/\ ChanCap = NumWorkers
          /\ Len(errCh) <= Cardinality({w \in Workers : wst[w] = "exited"})
          /\ Len(errCh) <= ChanCap
          /\ \A w \in Workers : wst[w] # "exited" => Len(errCh) < ChanCap)
    /\ [][C20_ErrStep]_vars

\* C20 witness: a worker has sent its error after the coordinator returned
\* another worker's error; nobody will receive it.
C20_Witness ==
    /\ pc = "done" /\ errPhase = "retry" /\ errCh # <<>>
    /\ Cardinality({w \in Workers : wst[w] = "exited"}) >= 2

====
